---- MODULE Spec2Model ----
(***************************************************************************)
(* Quadrature encoder of LiteX-CNC (firmware/modules/encoder.py).          *)
(*                                                                         *)
(* One EncoderModule instance as wired to the host registers by            *)
(* create_from_config.  A tick is one rising edge of the system clock: all *)
(* statements of the sync domain read the values the registers had before  *)
(* the edge, and when several statements assign the same register the last *)
(* one in program order wins.  The statements of the SoC (create_from_     *)
(* config) come before those of the submodule (EncoderModule.__init__).    *)
(***************************************************************************)
EXTENDS Integers, FiniteSets, Sequences, TLC

VARIABLES
    config,   \* the EncoderInstanceConfig of the instance
    env,      \* the surroundings of the instance in this run
    encoder,  \* the registers of the instance
    mmio,     \* the storage of the host registers
    last,     \* the registers of the instance before the last clock edge
    track,    \* the edges of the A and B lines seen since the last reset
    served,   \* an index edge has reset the counter and the host has not
              \* written encoder_index_enable since
    soc       \* the SoC with the instances of an EncoderModuleConfig

vars == <<config, env, encoder, mmio, last, track, served, soc>>

\* the variables of the instance taken alone
alone == <<config, env, encoder, mmio, last, track, served>>

(***************************************************************************)
(* Bounds of the model                                                     *)
(***************************************************************************)
\* an instance without max_value or min_value is followed this many counts
\* away from its reset_value
MaxTravel == 1

\* the edges of the A and B lines are followed up to this net count
MaxNet == 2

(***************************************************************************)
(* Signed 32-bit arithmetic of the counter                                 *)
(***************************************************************************)
COUNTER_SIZE == 32

INT_MAX == 2147483647

INT_MIN == (-2147483647) - 1

\* counter + 1 in a Signal((COUNTER_SIZE, True))
Inc(c) == IF c = INT_MAX THEN INT_MIN ELSE c + 1

\* counter - 1 in a Signal((COUNTER_SIZE, True))
Dec(c) == IF c = INT_MIN THEN INT_MAX ELSE c - 1

\* c + n in a Signal((COUNTER_SIZE, True)), n a small number of counts
RECURSIVE Plus(_, _)
Plus(c, n) ==
    IF n = 0 THEN c
    ELSE IF n > 0 THEN Plus(Inc(c), n - 1) ELSE Plus(Dec(c), n + 1)

(***************************************************************************)
(* Configuration of an instance.  An optional value is the empty set       *)
(* (None) or a singleton.                                                  *)
(***************************************************************************)
None == {}

Some(v) == {v}

Val(opt) == CHOOSE v \in opt : TRUE

EncoderInstanceConfig(reset_value, min_value, max_value, pin_Z) ==
    [reset_value |-> reset_value, min_value |-> min_value,
     max_value |-> max_value, pin_Z |-> pin_Z]

\* the configurations the model is run for
Configs ==
    { EncoderInstanceConfig(0, None, None, TRUE),
      EncoderInstanceConfig(1, Some(0), Some(2), TRUE) }

(***************************************************************************)
(* Combinatorial signals of an instance                                    *)
(***************************************************************************)
Xor(a, b) == a # b

\* a Signal(3) after reset
Zero3 == [i \in 0..2 |-> FALSE]

\* Cat(pin, delayed[:2])
Shift(pin, delayed) == [i \in 0..2 |-> IF i = 0 THEN pin ELSE delayed[i - 1]]

\* count_ena as the enable of a decoder that counts every change of a line
count_ena_EitherLine(e) ==
    \/ e.pin_A_delayed[1] # e.pin_A_delayed[2]
    \/ e.pin_B_delayed[1] # e.pin_B_delayed[2]

\* count_ena taken one register stage early, from the samples [0] and [1]
count_ena_Early(e) ==
    Xor(Xor(Xor(e.pin_A_delayed[0], e.pin_A_delayed[1]), e.pin_B_delayed[0]),
        e.pin_B_delayed[1])

count_ena(e) ==
    Xor(Xor(Xor(e.pin_A_delayed[1], e.pin_A_delayed[2]), e.pin_B_delayed[1]),
        e.pin_B_delayed[2])

\* count_dir with the samples of the two lines taken the other way round
count_dir_Swapped(e) == Xor(e.pin_A_delayed[2], e.pin_B_delayed[1])

\* count_dir taken from the two lines at the same sample
count_dir_SameSample(e) == Xor(e.pin_A_delayed[1], e.pin_B_delayed[1])

count_dir(e) == Xor(e.pin_A_delayed[1], e.pin_B_delayed[2])

\* raising flank of the index: pin_Z_delayed[1] & ~pin_Z_delayed[2]
index_rising(e) == e.pin_Z_delayed[1] /\ ~e.pin_Z_delayed[2]

\* pin_Z read from a pad whether or not the instance has a Z pin
pin_Z_FromPad(cfg, p) == p.Encoder_Z

\* the pin_Z signal: the pad when it exists, Constant(0) otherwise
pin_Z(cfg, p) == IF cfg.pin_Z THEN p.Encoder_Z ELSE FALSE

\* the flag of the instance in the list index_pulse of create_from_config:
\* encoder.index_pulse if pin_Z is not None else Constant(0)
index_pulse_flag(cfg, e) == IF cfg.pin_Z THEN e.index_pulse ELSE FALSE

(***************************************************************************)
(* The statements of the sync domain, in program order                     *)
(***************************************************************************)
\* If(reset_index_pulse & index_pulse, ...)
AckCondition(e) == e.reset_index_pulse /\ e.index_pulse

\* If(reset | (index_enable & pin_Z_delayed[1] & ~pin_Z_delayed[2]), ...)
ResetCondition(e) == e.reset \/ (e.index_enable /\ index_rising(e))

\* the guard of the counting statement without the exclusion of the reset
\* by the index
CountCondition_NoIndexGuard(e) == count_ena(e)

\* the guard of the counting statement
CountCondition(e) == count_ena(e) /\ ~(e.index_enable /\ index_rising(e))

\* index_pulse.eq(value) on a Signal of one bit keeps the lowest bit
Bit(value) == (value % 2) = 1

\* index_pulse cleared along with the counter
NextIndexPulse_ClearedByReset(cfg, e) ==
    LET s1 == IF index_rising(e) THEN TRUE ELSE e.index_pulse
        s2 == IF AckCondition(e) THEN Bit(cfg.reset_value) ELSE s1
    IN  IF ResetCondition(e) THEN FALSE ELSE s2

\* the statements that assign index_pulse
NextIndexPulse(cfg, e) ==
    LET s1 == IF index_rising(e) THEN TRUE ELSE e.index_pulse
    IN  IF AckCondition(e) THEN Bit(cfg.reset_value) ELSE s1

\* the statements that assign reset_index_pulse: the load from the storage
\* (SoC), then the clear of the acknowledgement (instance)
NextResetIndexPulse(e, m) ==
    IF AckCondition(e) THEN FALSE ELSE m.encoder_reset_index_pulse

\* the statements that assign index_enable: the loads from the storage
\* (SoC), then the clear by the reset (instance)
NextIndexEnable(e, m) ==
    IF ResetCondition(e) THEN FALSE ELSE m.encoder_index_enable

\* create_counter_increase with the comparison counter <= max_value
create_counter_increase_OffByOne(cfg, e, cur) ==
    IF cfg.max_value # None
    THEN IF e.counter <= Val(cfg.max_value) THEN Inc(e.counter) ELSE cur
    ELSE Inc(e.counter)

\* create_counter_increase that stops at the largest value of the counter
create_counter_increase_Saturating(cfg, e, cur) ==
    IF cfg.max_value # None
    THEN IF e.counter < Val(cfg.max_value) THEN Inc(e.counter) ELSE cur
    ELSE IF e.counter < INT_MAX THEN Inc(e.counter) ELSE cur

\* create_counter_increase: cur is the value assigned so far in this tick
create_counter_increase(cfg, e, cur) ==
    IF cfg.max_value # None
    THEN IF e.counter < Val(cfg.max_value) THEN Inc(e.counter) ELSE cur
    ELSE Inc(e.counter)

\* create_counter_decrease that wraps round to max_value at min_value
create_counter_decrease_WrapRound(cfg, e, cur) ==
    IF cfg.min_value # None
    THEN IF e.counter > Val(cfg.min_value) THEN Dec(e.counter)
         ELSE IF cfg.max_value # None THEN Val(cfg.max_value) ELSE cur
    ELSE Dec(e.counter)

\* create_counter_decrease: cur is the value assigned so far in this tick
create_counter_decrease(cfg, e, cur) ==
    IF cfg.min_value # None
    THEN IF e.counter > Val(cfg.min_value) THEN Dec(e.counter) ELSE cur
    ELSE Dec(e.counter)

\* the statements that assign counter
NextCounter(cfg, e) ==
    LET s3 == IF ResetCondition(e) THEN cfg.reset_value ELSE e.counter
    IN  IF CountCondition(e)
        THEN IF count_dir(e)
             THEN create_counter_increase(cfg, e, s3)
             ELSE create_counter_decrease(cfg, e, s3)
        ELSE s3

\* the flags wired to the storage in the comb domain: the statements of a
\* clock edge read the storage itself
EncoderSync_FlagsFromStorage(cfg, e, m, p) ==
    LET w == [e EXCEPT !.reset = m.reset,
                       !.index_enable = m.encoder_index_enable,
                       !.reset_index_pulse = m.encoder_reset_index_pulse]
    IN  [ pin_A_delayed     |-> Shift(p.Encoder_A, e.pin_A_delayed),
          pin_B_delayed     |-> Shift(p.Encoder_B, e.pin_B_delayed),
          pin_Z_delayed     |-> Shift(pin_Z(cfg, p), e.pin_Z_delayed),
          index_pulse       |-> NextIndexPulse(cfg, w),
          reset_index_pulse |-> NextResetIndexPulse(w, m),
          index_enable      |-> NextIndexEnable(w, m),
          reset             |-> m.reset,
          counter           |-> NextCounter(cfg, w) ]

\* one clock edge of the instance and of its wiring to the host registers
EncoderSync(cfg, e, m, p) ==
    [ pin_A_delayed     |-> Shift(p.Encoder_A, e.pin_A_delayed),
      pin_B_delayed     |-> Shift(p.Encoder_B, e.pin_B_delayed),
      pin_Z_delayed     |-> Shift(pin_Z(cfg, p), e.pin_Z_delayed),
      index_pulse       |-> NextIndexPulse(cfg, e),
      reset_index_pulse |-> NextResetIndexPulse(e, m),
      index_enable      |-> NextIndexEnable(e, m),
      reset             |-> m.reset,
      counter           |-> NextCounter(cfg, e) ]

(***************************************************************************)
(* The state machine                                                       *)
(***************************************************************************)
\* the registers of a new instance
NewEncoder(cfg) ==
    [ pin_A_delayed     |-> Zero3,
      pin_B_delayed     |-> Zero3,
      pin_Z_delayed     |-> Zero3,
      index_pulse       |-> FALSE,
      reset_index_pulse |-> FALSE,
      index_enable      |-> FALSE,
      reset             |-> FALSE,
      counter           |-> cfg.reset_value ]

NewMMIO ==
    [ reset |-> FALSE, encoder_index_enable |-> FALSE,
      encoder_reset_index_pulse |-> FALSE ]

\* the levels of the pads of an instance
Pads == [Encoder_A : BOOLEAN, Encoder_B : BOOLEAN, Encoder_Z : BOOLEAN]

\* The surroundings of the instance in a run: the pads whose level changes
\* (the other pads stay low) and the registers the host writes.
Environment(live, writes) == [live |-> live, writes |-> writes]

Environments ==
    { Environment({"Encoder_A", "Encoder_B"}, {"reset"}),
      Environment({"Encoder_A", "Encoder_Z"}, {"reset", "encoder_index_enable"}),
      Environment({"Encoder_A", "Encoder_Z"}, {"encoder_reset_index_pulse"}),
      Environment({"Encoder_Z"},
                  {"reset", "encoder_index_enable", "encoder_reset_index_pulse"}) }

\* the levels the pads can take in a run
PadsIn(v) ==
    { p \in Pads : \A pad \in {"Encoder_A", "Encoder_B", "Encoder_Z"} :
                      p[pad] => pad \in v.live }

(***************************************************************************)
(* The A and B lines as a quadrature signal.  The position of the pair in  *)
(* the cycle 00 -> 10 -> 11 -> 01 (the signal of the simulation of the     *)
(* module) tells the edges apart: one position on is an edge forward, one  *)
(* back an edge backward, two positions a change of both lines at once.    *)
(***************************************************************************)
Phase(a, b) ==
    IF ~a /\ ~b THEN 0 ELSE IF a /\ ~b THEN 1 ELSE IF a /\ b THEN 2 ELSE 3

\* the edge between the two synchronized samples of the registers e:
\* 0 none, 1 forward, 2 both lines, 3 backward
EdgeOf(e) ==
    (Phase(e.pin_A_delayed[1], e.pin_B_delayed[1]) + 4
       - Phase(e.pin_A_delayed[2], e.pin_B_delayed[2])) % 4

NoTrack == [valid |-> FALSE, net |-> 0, kept |-> 0, pure |-> TRUE]

NewTrack == [valid |-> TRUE, net |-> 0, kept |-> 0, pure |-> TRUE]

\* the edges seen after the clock edge taken with the registers e: net is
\* the number of edges forward minus the number of edges backward, kept
\* leaves out the edges that arrive at the bound in their direction, pure
\* tells that all the edges had the same direction
NextTrack(cfg, e, t) ==
    LET at == Plus(cfg.reset_value, t.kept)
        up == IF cfg.max_value # None /\ at = Val(cfg.max_value)
              THEN t.kept ELSE t.kept + 1
        down == IF cfg.min_value # None /\ at = Val(cfg.min_value)
                THEN t.kept ELSE t.kept - 1
    IN  IF ResetCondition(e)
        THEN IF EdgeOf(e) = 0 THEN NewTrack ELSE NoTrack
        ELSE IF ~t.valid \/ EdgeOf(e) = 0 THEN t
        ELSE IF EdgeOf(e) = 1 /\ t.net < MaxNet
             THEN [valid |-> TRUE, net |-> t.net + 1, kept |-> up,
                   pure |-> t.pure /\ t.net >= 0]
        ELSE IF EdgeOf(e) = 3 /\ t.net > -MaxNet
             THEN [valid |-> TRUE, net |-> t.net - 1, kept |-> down,
                   pure |-> t.pure /\ t.net <= 0]
        ELSE NoTrack

\* the SoC of the runs that follow one instance alone: not constructed
NoSoC == << >>

Init ==
    /\ config \in Configs
    /\ env \in Environments
    /\ encoder = NewEncoder(config)
    /\ mmio = NewMMIO
    /\ last = << >>
    /\ track = NewTrack
    /\ served = FALSE
    /\ soc = NoSoC

\* the counter of an instance without a bound is followed MaxTravel counts
InTravel(cfg, c) ==
    \/ cfg.min_value # None /\ cfg.max_value # None
    \/ \E n \in -MaxTravel..MaxTravel : c = Plus(cfg.reset_value, n)

\* one clock edge, the pads at any levels
Tick ==
    /\ InTravel(config, NextCounter(config, encoder))
    /\ \E p \in PadsIn(env) : encoder' = EncoderSync(config, encoder, mmio, p)
    /\ last' = <<encoder>>
    /\ track' = NextTrack(config, encoder, track)
    /\ served' = (served \/ (encoder.index_enable /\ index_rising(encoder)))
    /\ UNCHANGED <<config, env, mmio, soc>>

\* the host writes the reset register
HostWriteReset ==
    /\ "reset" \in env.writes
    /\ mmio' = [mmio EXCEPT !.reset = ~mmio.reset]
    /\ UNCHANGED <<config, env, encoder, last, track, served, soc>>

\* the host writes the bit of the instance in encoder_index_enable
HostWriteIndexEnable ==
    /\ "encoder_index_enable" \in env.writes
    /\ \E v \in BOOLEAN :
          /\ v # mmio.encoder_index_enable \/ served
          /\ mmio' = [mmio EXCEPT !.encoder_index_enable = v]
    /\ served' = FALSE
    /\ UNCHANGED <<config, env, encoder, last, track, soc>>

\* the host writes the bit of the instance in encoder_reset_index_pulse
HostWriteResetIndexPulse ==
    /\ "encoder_reset_index_pulse" \in env.writes
    /\ mmio' = [mmio EXCEPT !.encoder_reset_index_pulse =
                               ~mmio.encoder_reset_index_pulse]
    /\ UNCHANGED <<config, env, encoder, last, track, served, soc>>

Next ==
    \/ Tick
    \/ HostWriteReset
    \/ HostWriteIndexEnable
    \/ HostWriteResetIndexPulse

Spec == Init /\ [][Next]_vars

\* configurations at the ends of the range of the counter: no bound, a
\* min_value only, a max_value only
WrapConfigs ==
    { EncoderInstanceConfig(INT_MAX, None, None, TRUE),
      EncoderInstanceConfig(INT_MAX, Some(INT_MAX), None, TRUE),
      EncoderInstanceConfig(INT_MIN, None, Some(INT_MIN), TRUE) }

InitWrap ==
    /\ config \in WrapConfigs
    /\ env \in Environments
    /\ encoder = NewEncoder(config)
    /\ mmio = NewMMIO
    /\ last = << >>
    /\ track = NewTrack
    /\ served = FALSE
    /\ soc = NoSoC

SpecWrap == InitWrap /\ [][Next]_vars

\* configurations without a Z pin
NoZConfigs ==
    { EncoderInstanceConfig(0, None, None, FALSE),
      EncoderInstanceConfig(1, Some(0), Some(2), FALSE) }

InitNoZ ==
    /\ config \in NoZConfigs
    /\ env \in Environments
    /\ encoder = NewEncoder(config)
    /\ mmio = NewMMIO
    /\ last = << >>
    /\ track = NewTrack
    /\ served = FALSE
    /\ soc = NoSoC

SpecNoZ == InitNoZ /\ [][Next]_vars

(***************************************************************************)
(* The SoC: the registers of the MMIO and the instances of an              *)
(* EncoderModuleConfig.  The instances of a config are numbered from 0, as *)
(* enumerate(config.instances) numbers them.                               *)
(***************************************************************************)
\* len(config.instances)
NumInstances(module) == Cardinality(DOMAIN module.instances)

\* math.ceil(float(n) / d)
Ceil(n, d) == IF n % d = 0 THEN n \div d ELSE (n \div d) + 1

\* the size of a packed register: the whole number of 32-bit words that
\* truncates the number of instances
RegisterSize_Floor(n) == (n \div 32) * 32

\* the size of a packed register: int(math.ceil(float(n)/32))*32
RegisterSize(n) == Ceil(n, 32) * 32

\* `not config`: the config of the module is empty, it has no instance
Falsy(module) == NumInstances(module) = 0

CSRStatus(size, name) == [kind |-> "CSRStatus", size |-> size, name |-> name]

CSRStorage(size, name) == [kind |-> "CSRStorage", size |-> size, name |-> name]

\* add_mmio_read_registers without the test of the empty config
add_mmio_read_registers_Unguarded(module) ==
    { CSRStatus(RegisterSize(NumInstances(module)), <<"encoder_index_pulse">>) }
      \cup { CSRStatus(COUNTER_SIZE, <<"encoder", index, "counter">>) :
               index \in 0..(NumInstances(module) - 1) }

\* the registers add_mmio_read_registers adds to the MMIO
add_mmio_read_registers(module) ==
    IF Falsy(module) THEN {}
    ELSE { CSRStatus(RegisterSize(NumInstances(module)),
                     <<"encoder_index_pulse">>) }
           \cup { CSRStatus(COUNTER_SIZE, <<"encoder", index, "counter">>) :
                    index \in 0..(NumInstances(module) - 1) }

\* the registers add_mmio_write_registers adds to the MMIO
add_mmio_write_registers(module) ==
    IF Falsy(module) THEN {}
    ELSE { CSRStorage(RegisterSize(NumInstances(module)),
                      <<"encoder_index_enable">>),
           CSRStorage(RegisterSize(NumInstances(module)),
                      <<"encoder_reset_index_pulse">>) }

\* the size of the register of the MMIO with the name, 0 without it
SizeOf(registers, name) ==
    IF \E r \in registers : r.name = name
    THEN (CHOOSE r \in registers : r.name = name).size
    ELSE 0

\* the instances create_from_config adds to the SoC
create_from_config(module) ==
    IF Falsy(module) THEN << >>
    ELSE [index \in 0..(NumInstances(module) - 1) |->
            NewEncoder(module.instances[index])]

\* the storage every instance reads the first bits of
MMIOOf_FirstBit(storage, index) ==
    [ reset |-> storage.reset,
      encoder_index_enable |-> 0 \in storage.encoder_index_enable,
      encoder_reset_index_pulse |-> 0 \in storage.encoder_reset_index_pulse ]

\* The storage as the instance with the index reads it: reset.storage,
\* encoder_index_enable.storage[index], encoder_reset_index_pulse.storage
\* [index].  The storage of a packed register is the set of its bits at 1.
MMIOOf(storage, index) ==
    [ reset |-> storage.reset,
      encoder_index_enable |-> index \in storage.encoder_index_enable,
      encoder_reset_index_pulse |-> index \in storage.encoder_reset_index_pulse ]

\* the list index_pulse of create_from_config
index_pulse_list(module, encoders) ==
    [index \in 0..(NumInstances(module) - 1) |->
        index_pulse_flag(module.instances[index], encoders[index])]

\* signal.eq(Cat(bits)) for a signal of the size: the bits the signal has
\* no place for are lost, the places without a bit are 0
EqCat(size, bits) ==
    [k \in 0..(size - 1) |-> IF k \in DOMAIN bits THEN bits[k] ELSE FALSE]

\* encoder_index_pulse.status, driven in the comb domain
encoder_index_pulse(s) ==
    EqCat(SizeOf(s.registers, <<"encoder_index_pulse">>),
          index_pulse_list(s.module, s.encoders))

\* the storage of the MMIO after the reset of the SoC
NewStorage ==
    [ reset |-> FALSE, encoder_index_enable |-> {},
      encoder_reset_index_pulse |-> {} ]

\* an instance outside a SoC with the config of the instance the run
\* watches, and host registers of its own
NoRef == << >>

NewRef(module, watch) ==
    IF watch \in DOMAIN module.instances
    THEN [encoder |-> NewEncoder(module.instances[watch]), mmio |-> NewMMIO]
    ELSE NoRef

\* A run of the SoC: the config of the module, the pads whose level
\* changes for the instances that have such pads (all other pads stay low),
\* the bits of the registers the host writes, the instance the run watches.
Scenario(instances, live, writes, watch) ==
    [instances |-> instances, live |-> live, writes |-> writes,
     watch |-> watch]

\* the SoC after construction
NewSoC(sc) ==
    LET module == [instances |-> sc.instances]
    IN  [ module         |-> module,
          live           |-> sc.live,
          writes         |-> sc.writes,
          watch          |-> sc.watch,
          registers      |-> add_mmio_read_registers(module)
                               \cup add_mmio_write_registers(module),
          encoders       |-> create_from_config(module),
          storage        |-> NewStorage,
          counter_status |-> [index \in DOMAIN create_from_config(module)
                                |-> 0],
          ref            |-> NewRef(module, sc.watch) ]

\* n instances with the config
Repeat(n, cfg) == [index \in 0..(n - 1) |-> cfg]

\* the writes of the host: the reset register, a bit of a packed register
WriteReset == <<"reset">>

WriteBit(name, bit) == <<name, bit>>

\* the runs of the SoC the model is checked for
Scenarios ==
    LET plain   == EncoderInstanceConfig(0, None, None, TRUE)
        bounded == EncoderInstanceConfig(1, Some(0), Some(2), TRUE)
        noZ     == EncoderInstanceConfig(0, None, None, FALSE)
    IN  { Scenario(<< >>, << >>, {WriteReset}, -1),
          Scenario(Repeat(2, plain),
                   (0 :> {"Encoder_A"}) @@ (1 :> {"Encoder_Z"}),
                   {WriteReset, WriteBit("encoder_index_enable", 1)},
                   0),
          Scenario((0 :> bounded) @@ (1 :> noZ),
                   (0 :> {"Encoder_Z"}) @@ (1 :> {"Encoder_A", "Encoder_B"}),
                   {WriteBit("encoder_reset_index_pulse", 0),
                    WriteBit("encoder_reset_index_pulse", 1)},
                   1),
          Scenario((1 :> noZ) @@ Repeat(33, plain),
                   (1 :> {"Encoder_Z"}) @@ (32 :> {"Encoder_Z"}),
                   {WriteBit("encoder_reset_index_pulse", 32),
                    WriteBit("encoder_index_enable", 31)},
                   32),
          Scenario(Repeat(40, plain),
                   (0 :> {"Encoder_Z"}) @@ (39 :> {"Encoder_Z"}),
                   {WriteBit("encoder_reset_index_pulse", 39),
                    WriteBit("encoder_reset_index_pulse", 40)},
                   39) }

\* the instance taken alone stays as constructed in the runs of the SoC
InitAlone ==
    /\ config = EncoderInstanceConfig(0, None, None, TRUE)
    /\ env = Environment({}, {})
    /\ encoder = NewEncoder(config)
    /\ mmio = NewMMIO
    /\ last = << >>
    /\ track = NewTrack
    /\ served = FALSE

InitSoC ==
    /\ InitAlone
    /\ \E sc \in Scenarios : soc = NewSoC(sc)

\* the levels of the pads of all instances at a clock edge: any levels of
\* the pads that change, low for the others
PadsOfSoC(s) ==
    { [index \in DOMAIN s.encoders |->
          IF index \in DOMAIN s.live THEN q[index]
          ELSE [Encoder_A |-> FALSE, Encoder_B |-> FALSE, Encoder_Z |-> FALSE]] :
        q \in { r \in [DOMAIN s.live -> Pads] :
                  \A index \in DOMAIN s.live :
                     r[index] \in PadsIn([live |-> s.live[index]]) } }

\* one clock edge of the SoC: every instance takes it with its own pads and
\* its own bits of the storage; the counter status registers load the
\* counters
SoCTick ==
    /\ \A index \in DOMAIN soc.encoders :
          InTravel(soc.module.instances[index],
                   NextCounter(soc.module.instances[index], soc.encoders[index]))
    /\ \E pads \in PadsOfSoC(soc) :
          soc' = [soc EXCEPT
             !.encoders = [index \in DOMAIN soc.encoders |->
                 EncoderSync(soc.module.instances[index], soc.encoders[index],
                             MMIOOf(soc.storage, index), pads[index])],
             !.counter_status = [index \in DOMAIN soc.encoders |->
                 soc.encoders[index].counter],
             !.ref = IF soc.ref = NoRef THEN NoRef
                     ELSE [soc.ref EXCEPT !.encoder =
                             EncoderSync(soc.module.instances[soc.watch],
                                         soc.ref.encoder, soc.ref.mmio,
                                         pads[soc.watch])]]
    /\ UNCHANGED alone

\* the host writes the reset register of the SoC
SoCHostWriteReset ==
    /\ WriteReset \in soc.writes
    /\ soc' = [soc EXCEPT
          !.storage.reset = ~soc.storage.reset,
          !.ref = IF soc.ref = NoRef THEN NoRef
                  ELSE [soc.ref EXCEPT !.mmio.reset = ~soc.storage.reset]]
    /\ UNCHANGED alone

\* the set of bits with the bit changed
Toggle(bits, bit) == IF bit \in bits THEN bits \ {bit} ELSE bits \cup {bit}

\* the host writes a bit of encoder_index_enable
SoCHostWriteIndexEnable ==
    /\ \E bit \in 0..(SizeOf(soc.registers, <<"encoder_index_enable">>) - 1) :
          /\ WriteBit("encoder_index_enable", bit) \in soc.writes
          /\ soc' = [soc EXCEPT
                !.storage.encoder_index_enable =
                    Toggle(soc.storage.encoder_index_enable, bit),
                !.ref = IF soc.ref = NoRef \/ bit # soc.watch THEN soc.ref
                        ELSE [soc.ref EXCEPT !.mmio.encoder_index_enable =
                                bit \notin soc.storage.encoder_index_enable]]
    /\ UNCHANGED alone

\* the host writes a bit of encoder_reset_index_pulse
SoCHostWriteResetIndexPulse ==
    /\ \E bit \in
          0..(SizeOf(soc.registers, <<"encoder_reset_index_pulse">>) - 1) :
          /\ WriteBit("encoder_reset_index_pulse", bit) \in soc.writes
          /\ soc' = [soc EXCEPT
                !.storage.encoder_reset_index_pulse =
                    Toggle(soc.storage.encoder_reset_index_pulse, bit),
                !.ref = IF soc.ref = NoRef \/ bit # soc.watch THEN soc.ref
                        ELSE [soc.ref EXCEPT !.mmio.encoder_reset_index_pulse =
                                bit \notin soc.storage.encoder_reset_index_pulse]]
    /\ UNCHANGED alone

NextSoC ==
    \/ SoCTick
    \/ SoCHostWriteReset
    \/ SoCHostWriteIndexEnable
    \/ SoCHostWriteResetIndexPulse

SpecSoC == InitSoC /\ [][NextSoC]_vars

\* the registers before the last clock edge
Ticked == last # << >>

Before == last[1]

\* both bounds of the counter are configured
Bounded(cfg) == cfg.min_value # None /\ cfg.max_value # None

\* a line changed between the two synchronized samples of the registers e
A_changed(e) == e.pin_A_delayed[1] # e.pin_A_delayed[2]

B_changed(e) == e.pin_B_delayed[1] # e.pin_B_delayed[2]

(***************************************************************************)
(* C1                                                                      *)
(***************************************************************************)
\* C1: after a tick in which the global reset is asserted and a count event
\* is detected, the counter equals reset_value.
C1_ResetBeatsCount ==
    (Ticked /\ Before.reset /\ count_ena(Before))
        => encoder.counter = config.reset_value

(***************************************************************************)
(* C2                                                                      *)
(***************************************************************************)
\* C2: with both bounds configured, min_value <= counter <= max_value in
\* every reachable state.
C2_CounterInBounds ==
    Bounded(config) =>
        /\ Val(config.min_value) <= encoder.counter
        /\ encoder.counter <= Val(config.max_value)

\* a count event forward arrived with the counter at max_value, in a tick
\* without reset, and the counter has stayed at max_value
C2_Witness ==
    /\ Ticked /\ Bounded(config)
    /\ ~ResetCondition(Before)
    /\ count_ena(Before) /\ count_dir(Before)
    /\ Before.counter = Val(config.max_value)
    /\ encoder.counter = Val(config.max_value)

(***************************************************************************)
(* C3                                                                      *)
(***************************************************************************)
\* C3: a tick that starts with reset_index_pulse and index_pulse true and
\* detects no index rising edge ends with both flags false.
C3_AckClearsBoth ==
    (Ticked /\ Before.reset_index_pulse /\ Before.index_pulse
            /\ ~index_rising(Before))
        => (~encoder.index_pulse /\ ~encoder.reset_index_pulse)

(***************************************************************************)
(* C4                                                                      *)
(***************************************************************************)
\* C4: once an index edge has reset the counter on a request of the host,
\* index_enable is false until the host writes encoder_index_enable anew.
C4_IndexEnableConsumedOnce == served => ~encoder.index_enable

(***************************************************************************)
(* C5                                                                      *)
(***************************************************************************)
\* C5: after a tick in which index_enable is true and an index rising edge
\* is detected, the counter equals reset_value and index_enable is false,
\* also when a count event is detected in that tick.
C5_IndexReset ==
    (Ticked /\ Before.index_enable /\ index_rising(Before))
        => (encoder.counter = config.reset_value /\ ~encoder.index_enable)

\* an index edge has reset the counter, from another value than
\* reset_value, in a tick in which a count event was detected
C5_Witness ==
    /\ Ticked /\ Before.index_enable /\ index_rising(Before)
    /\ count_ena(Before) /\ ~Before.reset
    /\ Before.counter # config.reset_value
    /\ encoder.counter = config.reset_value /\ ~encoder.index_enable

(***************************************************************************)
(* C6                                                                      *)
(***************************************************************************)
\* reset_value plus the net count of the edges, clamped to the bounds
ClampedSum(cfg, net) ==
    LET sum == Plus(cfg.reset_value, net)
    IN  IF cfg.max_value # None /\ sum > Val(cfg.max_value)
        THEN Val(cfg.max_value)
        ELSE IF cfg.min_value # None /\ sum < Val(cfg.min_value)
             THEN Val(cfg.min_value)
             ELSE sum

C7_NewEdgeNotSwallowed ==
    (Ticked /\ Before.index_pulse /\ Before.reset_index_pulse
            /\ index_rising(Before))
        => encoder.index_pulse

(***************************************************************************)
(* C8                                                                      *)
(***************************************************************************)
\* C8: a tick that starts with reset_index_pulse true and index_pulse false
\* ends with reset_index_pulse false.
C8_AckRequestCleared ==
    (Ticked /\ Before.reset_index_pulse /\ ~Before.index_pulse)
        => ~encoder.reset_index_pulse

(***************************************************************************)
(* C9                                                                      *)
(***************************************************************************)
\* C9: index_pulse goes from false to true only in a tick that detects an
\* index rising edge, and from true to false only in a tick that starts
\* with reset_index_pulse true.
C9_IndexPulseSticky ==
    Ticked =>
        /\ (~Before.index_pulse /\ encoder.index_pulse) => index_rising(Before)
        /\ (Before.index_pulse /\ ~encoder.index_pulse)
               => Before.reset_index_pulse

\* index_pulse has stayed true over a tick in which the counter was reset
\* and no acknowledgement was pending
C9_Witness ==
    /\ Ticked /\ Before.index_pulse /\ ~Before.reset_index_pulse
    /\ ResetCondition(Before)
    /\ encoder.counter = config.reset_value
    /\ encoder.index_pulse

(***************************************************************************)
(* C10                                                                     *)
(***************************************************************************)
\* the counter is one step away from c
OneStep(c) == encoder.counter = Inc(c) \/ encoder.counter = Dec(c)

\* no bound keeps the counter at c
OffBounds(cfg, c) ==
    /\ cfg.max_value # None => c < Val(cfg.max_value)
    /\ cfg.min_value # None => c > Val(cfg.min_value)

\* C10 as stated: count_ena is true exactly when a line changed between the
\* two synchronized samples, and a change of both lines moves the counter
\* by one step (without reset and off the bounds).
C10_CountOnEitherChange ==
    Ticked =>
        /\ count_ena(Before) <=> (A_changed(Before) \/ B_changed(Before))
        /\ (A_changed(Before) /\ B_changed(Before)
              /\ ~ResetCondition(Before) /\ OffBounds(config, Before.counter))
               => OneStep(Before.counter)

\* C10 as amended: count_ena is true exactly when one line, and not the
\* other, changed between the two synchronized samples: a change of one
\* line moves the counter by one step (without reset and off the bounds),
\* a change of both lines leaves it where it is (without reset).
C10_CountOnSingleChange ==
    Ticked =>
        /\ count_ena(Before) <=> (A_changed(Before) # B_changed(Before))
        /\ (A_changed(Before) # B_changed(Before)
              /\ ~ResetCondition(Before) /\ OffBounds(config, Before.counter))
               => OneStep(Before.counter)
        /\ (A_changed(Before) /\ B_changed(Before) /\ ~ResetCondition(Before))
               => encoder.counter = Before.counter

\* both lines changed between the two samples of a tick without reset, off
\* the bounds, and the counter is where it was
C10_Witness ==
    /\ Ticked /\ A_changed(Before) /\ B_changed(Before)
    /\ ~ResetCondition(Before) /\ OffBounds(config, Before.counter)
    /\ encoder.counter = Before.counter

(***************************************************************************)
(* C11                                                                     *)
(***************************************************************************)
Min(a, b) == IF a <= b THEN a ELSE b

Max(a, b) == IF a >= b THEN a ELSE b

\* C11: k count events forward from reset_value and nothing else yield
\* min(reset_value + k, max_value), k count events backward yield
\* max(reset_value - k, min_value), and a count event towards a bound with
\* the counter at that bound leaves the counter where it is.
C11_HardClamp ==
    /\ (track.valid /\ track.pure /\ track.net >= 0
          /\ config.max_value # None)
           => encoder.counter = Min(Plus(config.reset_value, track.net),
                                    Val(config.max_value))
    /\ (track.valid /\ track.pure /\ track.net <= 0
          /\ config.min_value # None)
           => encoder.counter = Max(Plus(config.reset_value, track.net),
                                    Val(config.min_value))
    /\ (Ticked /\ ~ResetCondition(Before) /\ count_ena(Before)
          /\ count_dir(Before) /\ config.max_value # None
          /\ Before.counter = Val(config.max_value))
           => encoder.counter = Before.counter
    /\ (Ticked /\ ~ResetCondition(Before) /\ count_ena(Before)
          /\ ~count_dir(Before) /\ config.min_value # None
          /\ Before.counter = Val(config.min_value))
           => encoder.counter = Before.counter

\* more edges backward than there are counts down to min_value, and nothing
\* else since the reset: the last one found the counter at min_value and
\* left it there
C11_Witness ==
    /\ Ticked /\ track.valid /\ track.pure
    /\ config.min_value # None
    /\ Plus(config.reset_value, track.net) < Val(config.min_value)
    /\ EdgeOf(Before) = 3
    /\ Before.counter = Val(config.min_value)
    /\ encoder.counter = Val(config.min_value)

(***************************************************************************)
(* C12                                                                     *)
(***************************************************************************)
\* the state of an instance the claims compare
FinalState(e) ==
    <<e.counter, e.index_enable, e.index_pulse, e.reset_index_pulse>>

\* two clock edges with the storage m and the pads at p1, then p2
TwoTicks(cfg, e, m, p1, p2) ==
    EncoderSync(cfg, EncoderSync(cfg, e, m, p1), m, p2)

\* C12: two ticks with reset asserted in both (the flag of the instance and
\* the storage are set) end in the same state as the same two ticks with
\* reset asserted in the second only.
C12_ResetIdempotent ==
    (encoder.reset /\ mmio.reset) =>
        \A p1 \in PadsIn(env), p2 \in PadsIn(env) :
            FinalState(TwoTicks(config, encoder, mmio, p1, p2))
              = FinalState(TwoTicks(config, [encoder EXCEPT !.reset = FALSE],
                                    mmio, p1, p2))

(***************************************************************************)
(* C13                                                                     *)
(***************************************************************************)
\* a count event forward, or backward, counted in the last tick
CountedUp(e) == ~ResetCondition(e) /\ count_ena(e) /\ count_dir(e)

CountedDown(e) == ~ResetCondition(e) /\ count_ena(e) /\ ~count_dir(e)

\* C13: without max_value a count event forward at 2^31 - 1 yields -2^31,
\* without min_value a count event backward at -2^31 yields 2^31 - 1; a
\* bound that is configured holds the counter on its side; the counter is
\* always a signed number of 32 bits.
C13_WrapsWhereUnbounded ==
    /\ encoder.counter \in INT_MIN..INT_MAX
    /\ Ticked =>
        /\ (CountedUp(Before) /\ config.max_value = None
              /\ Before.counter = INT_MAX) => encoder.counter = INT_MIN
        /\ (CountedDown(Before) /\ config.min_value = None
              /\ Before.counter = INT_MIN) => encoder.counter = INT_MAX
        /\ (CountedUp(Before) /\ config.max_value # None
              /\ Before.counter = Val(config.max_value))
               => encoder.counter = Before.counter
        /\ (CountedDown(Before) /\ config.min_value # None
              /\ Before.counter = Val(config.min_value))
               => encoder.counter = Before.counter

\* an instance with a min_value and no max_value has counted forward from
\* 2^31 - 1 to -2^31
C13_Witness ==
    /\ Ticked /\ CountedUp(Before)
    /\ config.min_value # None /\ config.max_value = None
    /\ Before.counter = INT_MAX
    /\ encoder.counter = INT_MIN

(***************************************************************************)
(* C15                                                                     *)
(***************************************************************************)
\* C15: the bit of an instance without a Z pin in the index_pulse register
\* is zero in every state, and no tick resets its counter through the
\* index: the reset statement fires only when the global reset is asserted.
C15_NoIndexWithoutZ ==
    ~config.pin_Z =>
        /\ ~index_pulse_flag(config, encoder)
        /\ ~encoder.index_pulse
        /\ Ticked =>
            /\ ~(Before.index_enable /\ index_rising(Before))
            /\ ResetCondition(Before) => Before.reset
            /\ ~Before.reset => encoder.counter = NextCounter(config,
                                   [Before EXCEPT !.index_enable = FALSE])

\* the host has set index_enable of an instance without a Z pin and the
\* counter, away from reset_value, has gone through a tick without reset
C15_Witness ==
    /\ ~config.pin_Z /\ Ticked
    /\ Before.index_enable /\ ~Before.reset
    /\ Before.counter # config.reset_value
    /\ encoder.counter # config.reset_value

(***************************************************************************)
(* C16                                                                     *)
(***************************************************************************)
\* a step that is a clock edge
ClockEdge == last' # last \/ encoder' # encoder

Arrived(d, d2) == d[2] # d[1] /\ d[1] = d[0] /\ d[0] = d2[0]

\* the line kept one level in all its samples
Steady(d, d2) == d[2] = d[1] /\ d[1] = d[0] /\ d[0] = d2[0]

\* C19: without reset, the third tick after a change of one line that is
\* then held, the other line steady, moves the counter by one step off the
\* bounds; a tick whose registers hold equal samples [1] and [2] of both
\* lines leaves the counter where it is, whatever the newest sample [0]
\* is: the two ticks before the third, and every tick after it while the
\* lines are held.
C19_ThirdTick ==
    (Ticked /\ ~ResetCondition(Before)) =>
        /\ ( /\ \/ /\ Arrived(Before.pin_A_delayed, encoder.pin_A_delayed)
                   /\ Steady(Before.pin_B_delayed, encoder.pin_B_delayed)
                \/ /\ Arrived(Before.pin_B_delayed, encoder.pin_B_delayed)
                   /\ Steady(Before.pin_A_delayed, encoder.pin_A_delayed)
             /\ OffBounds(config, Before.counter) )
               => OneStep(Before.counter)
        /\ (~A_changed(Before) /\ ~B_changed(Before))
               => encoder.counter = Before.counter

\* the third tick after a change of line B, held since, has moved the counter
C19_Witness ==
    /\ Ticked /\ ~ResetCondition(Before)
    /\ Arrived(Before.pin_B_delayed, encoder.pin_B_delayed)
    /\ Steady(Before.pin_A_delayed, encoder.pin_A_delayed)
    /\ OffBounds(config, Before.counter)
    /\ encoder.counter # Before.counter

(***************************************************************************)
(* C20                                                                     *)
(***************************************************************************)
\* C20: an edge forward in the cycle 00 -> 10 -> 11 -> 01 -> 00 is a count
\* event with the direction increment, an edge backward a count event with
\* the direction decrement; and when the edges seen since the last reset
\* are as many forward as backward and none of them was left out at a
\* bound, the counter is where it started.
C20_DirectionConsistent ==
    /\ Ticked =>
          /\ EdgeOf(Before) = 1 => (count_ena(Before) /\ count_dir(Before))
          /\ EdgeOf(Before) = 3 => (count_ena(Before) /\ ~count_dir(Before))
          /\ (EdgeOf(Before) = 1 /\ ~ResetCondition(Before)
                /\ OffBounds(config, Before.counter))
               => encoder.counter = Inc(Before.counter)
          /\ (EdgeOf(Before) = 3 /\ ~ResetCondition(Before)
                /\ OffBounds(config, Before.counter))
               => encoder.counter = Dec(Before.counter)
    /\ (track.valid /\ track.net = 0 /\ track.kept = 0)
          => encoder.counter = config.reset_value

\* the line went one edge forward and has come back one edge backward, and
\* the counter is back from reset_value + 1 at reset_value
C20_Witness ==
    /\ Ticked /\ track.valid /\ track.net = 0 /\ track.kept = 0
    /\ EdgeOf(Before) = 3 /\ ~ResetCondition(Before)
    /\ Before.counter = Inc(config.reset_value)
    /\ encoder.counter = config.reset_value

(***************************************************************************)
(* C14                                                                     *)
(***************************************************************************)
PackedRegisters ==
    { <<"encoder_index_enable">>, <<"encoder_reset_index_pulse">>,
      <<"encoder_index_pulse">> }

\* size is the least multiple of 32 that is at least n
LeastWords(size, n) == size % 32 = 0 /\ size >= n /\ size - 32 < n

\* C14: with at least one instance each packed register has the least whole
\* number of 32-bit words that holds a bit for every instance (64 bits for
\* 40 instances), bit i of encoder_index_pulse is the index_pulse register
\* of instance i, and the bits from the number of instances on are zero.
C14_PackedRegisters ==
    LET n == NumInstances(soc.module)
        status == encoder_index_pulse(soc)
    IN  n >= 1 =>
          /\ \A name \in PackedRegisters :
                /\ LeastWords(SizeOf(soc.registers, name), n)
                /\ n = 40 => SizeOf(soc.registers, name) = 64
          /\ \A index \in 0..(n - 1) :
                /\ index \in DOMAIN status
                /\ status[index] = soc.encoders[index].index_pulse
          /\ \A bit \in DOMAIN status : bit >= n => ~status[bit]

\* 40 instances, the last one has seen an index pulse and bit 39 of the 64
\* bits of the register is set
C14_Witness ==
    /\ NumInstances(soc.module) = 40
    /\ SizeOf(soc.registers, <<"encoder_index_pulse">>) = 64
    /\ soc.encoders[39].index_pulse
    /\ encoder_index_pulse(soc)[39]

(***************************************************************************)
(* C17                                                                     *)
(***************************************************************************)
\* the state of an instance the claim is about
StateOf(e) ==
    [ counter |-> e.counter, index_enable |-> e.index_enable,
      index_pulse |-> e.index_pulse,
      reset_index_pulse |-> e.reset_index_pulse ]

\* C17: the instance the run watches is in the state of an instance that
\* stands outside the SoC and has taken the same clock edges with the same
\* levels on its pads, the same reset and the same writes to its own bit of
\* encoder_index_enable and encoder_reset_index_pulse: the pads of the
\* other instances and the writes to their bits make no difference.
C17_InstancesIndependent ==
    soc.ref # NoRef =>
        StateOf(soc.encoders[soc.watch]) = StateOf(soc.ref.encoder)

\* the instance watched has counted, another instance has seen an index
\* pulse while its bit of encoder_index_enable was set in the storage
C17_Witness ==
    /\ soc.ref # NoRef
    /\ soc.encoders[soc.watch].counter
         # soc.module.instances[soc.watch].reset_value
    /\ \E index \in DOMAIN soc.encoders :
          /\ index # soc.watch
          /\ soc.encoders[index].index_pulse
          /\ index \in soc.storage.encoder_index_enable
          /\ ~soc.encoders[soc.watch].index_enable

(***************************************************************************)
(* C18                                                                     *)
(***************************************************************************)
\* the name is one of the registers of the encoders
EncoderRegister(name) ==
    \/ name \in PackedRegisters
    \/ name[1] = "encoder"

TypeOK ==
    /\ config \in Configs
    /\ encoder.counter \in INT_MIN..INT_MAX

====
